---------------------------- MODULE Spec2Model ----------------------------
(***************************************************************************)
(* A model of cpu.py, an instruction-level emulator for a subset of RV32I. *)
(*                                                                         *)
(* Representation of numbers.  The emulator computes on Python integers,   *)
(* which are unbounded, and stores them masked to 32 bits.  A Python       *)
(* integer v is represented here by the pair <<h, l>> with                 *)
(* v = h * 65536 + l and 0 <= l < 65536 (h is any integer, so negative     *)
(* values are represented too: -1 is <<-1, 65535>>).  A register value is  *)
(* such a pair with 0 <= h < 65536.  Small quantities (bit fields, byte    *)
(* offsets into the memory, lengths) are plain integers.                   *)
(***************************************************************************)
EXTENDS Integers, Sequences, FiniteSets, TLC

\* ------------------------------------------------------------------------
\* Python integers as pairs <<h, l>>
\* ------------------------------------------------------------------------

Half == 65536

Pow2(n) == 2 ^ n

\* the pair of h * 65536 + l for any integers h, l
Norm(h, l) == <<h + (l \div Half), l % Half>>

\* the pair of a small plain integer
Num(n) == Norm(0, n)

\* the plain integer of a pair known to be small
Plain(a) == a[1] * Half + a[2]

\* x + y
Add(a, b) == Norm(a[1] + b[1], a[2] + b[2])

\* x - y
Sub(a, b) == Norm(a[1] - b[1], a[2] - b[2])

\* x < y
Lt(a, b) == a[1] < b[1] \/ (a[1] = b[1] /\ a[2] < b[2])

\* x >= y
Ge(a, b) == ~Lt(a, b)

\* x > y
Gt(a, b) == Lt(b, a)

\* 1 << n, for 0 <= n <= 32
Shl1(n) == IF n >= 16 THEN <<Pow2(n - 16), 0>> ELSE <<0, Pow2(n)>>

\* x >> n (floor), for 0 <= n <= 46
ShrN(a, n) ==
  IF n >= 16
    THEN Num(a[1] \div Pow2(n - 16))
    ELSE <<a[1] \div Pow2(n), (a[1] % Pow2(n)) * Pow2(16 - n) + (a[2] \div Pow2(n))>>

\* x & 0xFFFFFFFF
Mask32(a) == <<a[1] % Half, a[2]>>

\* bitwise operators on naturals below 2^n, bit by bit
RECURSIVE BitsAnd(_, _, _)
BitsAnd(x, y, n) ==
  IF n = 0 THEN 0
  ELSE ((x % 2) * (y % 2)) + 2 * BitsAnd(x \div 2, y \div 2, n - 1)

RECURSIVE BitsOr(_, _, _)
BitsOr(x, y, n) ==
  IF n = 0 THEN 0
  ELSE (IF (x % 2) + (y % 2) > 0 THEN 1 ELSE 0) + 2 * BitsOr(x \div 2, y \div 2, n - 1)

RECURSIVE BitsXor(_, _, _)
BitsXor(x, y, n) ==
  IF n = 0 THEN 0
  ELSE (((x % 2) + (y % 2)) % 2) + 2 * BitsXor(x \div 2, y \div 2, n - 1)

\* The high half of a pair is a signed integer in -2^16 .. 2^16 - 1 for every
\* operand the emulator combines bitwise (a register value, or an immediate
\* of at least -2048): it is combined as a 17-bit two's-complement number.
Tc17(h) == h % (2 * Half)
UnTc17(u) == IF u >= Half THEN u - 2 * Half ELSE u

\* x & y
And(a, b) == <<UnTc17(BitsAnd(Tc17(a[1]), Tc17(b[1]), 17)), BitsAnd(a[2], b[2], 16)>>

\* x | y
Or(a, b) == <<UnTc17(BitsOr(Tc17(a[1]), Tc17(b[1]), 17)), BitsOr(a[2], b[2], 16)>>

\* x ^ y
Xor(a, b) == <<UnTc17(BitsXor(Tc17(a[1]), Tc17(b[1]), 17)), BitsXor(a[2], b[2], 16)>>


\* ------------------------------------------------------------------------
\* Register file
\* ------------------------------------------------------------------------

NumRegs == 33

PC == 32

\* Regfile.__init__: [0]*33
RegfileInit == [i \in 0 .. NumRegs - 1 |-> Num(0)]

\* Regfile.__getitem__
getitem(rf, key) == rf[key]

\* setitem without the mask: the value is stored as given
setitem_NoMask(rf, key, value) ==
  IF key = 0 THEN rf ELSE [rf EXCEPT ![key] = value]

\* Regfile.__setitem__
setitem(rf, key, value) ==
  IF key = 0 THEN rf ELSE [rf EXCEPT ![key] = Mask32(value)]

\* ------------------------------------------------------------------------
\* Opcode and funct3 enumerations
\* ------------------------------------------------------------------------

LUI == 55
LOAD == 3
STORE == 35
AUIPC == 23
BRANCH == 99
JAL == 111
JALR == 103
IMM == 19
OP == 51
MISC == 15
SYSTEM == 115

\* the values of the members of Ops: Ops(v) raises ValueError for any other v
OpsValues == {LUI, LOAD, STORE, AUIPC, BRANCH, JAL, JALR, IMM, OP, MISC, SYSTEM}

\* Funct3 is an Enum with aliases: members of equal value are the same
\* member, and every value 0..7 has a member, so Funct3(v) never raises for
\* a 3-bit field.  A member is modelled by its value.
ADD == 0
ADDI == 0
SLLI == 1
SLT == 2
SLTU == 3
XORI == 4
SRLI == 5
ORI == 6
ANDI == 7
BEQ == 0
BNE == 1
BLT == 4
BGE == 5
BLTU == 6
BGEU == 7
ECALL == 0
CSRRW == 1
CSRRS == 2
CSRRC == 3
CSRRWI == 5
CSRRSI == 6
CSRRCI == 7

\* ------------------------------------------------------------------------
\* Flat memory.  The byte string is kept sparsely: its length, and the
\* offsets holding a nonzero byte (every other offset below len holds 0).
\* ------------------------------------------------------------------------

MemBase == <<32768, 0>>

MemSize == 65536

NoBytes == [i \in {} |-> 0]

\* reset(): memory = b'\x00'*0x10000
MemoryInit == [len |-> MemSize, nz |-> NoBytes]

\* memory[i], for 0 <= i < len(memory)
ByteAt(mem, i) == IF i \in DOMAIN mem.nz THEN mem.nz[i] ELSE 0

\* ws(dat, addr): the result is [exc, mem]; an AssertionError leaves the
\* memory as it was.  memory[:addr] + dat + memory[addr+len(dat):] has
\* length max(len(memory), addr + len(dat)).
ws(mem, dat, addr) ==
  LET a == Sub(addr, MemBase) IN
  IF ~(Ge(a, Num(0)) /\ Lt(a, Num(mem.len)))
    THEN [exc |-> "AssertionError", mem |-> mem]
    ELSE
      LET n    == Plain(a)
          m    == Len(dat)
          keep == {i \in DOMAIN mem.nz : i < n \/ i >= n + m}
          new  == {n + k - 1 : k \in {j \in 1 .. m : dat[j] # 0}}
      IN [exc |-> "none",
          mem |-> [len |-> IF n + m > mem.len THEN n + m ELSE mem.len,
                   nz  |-> [i \in keep \cup new |->
                              IF i \in new THEN dat[i - n + 1] ELSE mem.nz[i]]]]

\* r32(addr): the result is [exc, val].  memory[addr:addr+4] is shorter than
\* 4 bytes within 3 bytes of the end, and struct.unpack then raises.
r32(mem, addr) ==
  LET a == Sub(addr, MemBase) IN
  IF Lt(a, Num(0)) \/ Ge(a, Num(mem.len))
    THEN [exc |-> "Exception: read out of bounds", val |-> <<>>]
    ELSE
      LET n == Plain(a) IN
      IF n + 4 > mem.len
        THEN [exc |-> "struct.error", val |-> <<>>]
        ELSE [exc |-> "none",
              val |-> << ByteAt(mem, n + 2) + 256 * ByteAt(mem, n + 3),
                         ByteAt(mem, n)     + 256 * ByteAt(mem, n + 1) >>]

\* ------------------------------------------------------------------------
\* sign_extend and arith
\* ------------------------------------------------------------------------

\* sign_extend losing the sign of the wrapped value: (1 << l) - x
sign_extend_NoNegation(x, l) ==
  IF ShrN(x, l - 1) = Num(1)
    THEN Sub(Shl1(l), x)
    ELSE x

\* sign_extend(x, l)
sign_extend(x, l) ==
  IF ShrN(x, l - 1) = Num(1)
    THEN Sub(Num(0), Sub(Shl1(l), x))
    ELSE x

\* x << y for a register value x.  A negative count raises ValueError.  Of
\* the product only the low 32 bits are represented: the value is consumed
\* by Regfile.__setitem__ alone, which keeps exactly those.
ShiftLeft(x, y) ==
  IF Lt(y, Num(0)) THEN [exc |-> "ValueError", val |-> <<>>]
  ELSE IF Ge(y, Num(32)) THEN [exc |-> "none", val |-> Num(0)]
  ELSE LET s == y[2] IN
    IF s >= 16
      THEN [exc |-> "none", val |-> <<(x[2] * Pow2(s - 16)) % Half, 0>>]
      ELSE [exc |-> "none",
            val |-> <<(x[1] * Pow2(s) + ((x[2] * Pow2(s)) \div Half)) % Half,
                      (x[2] * Pow2(s)) % Half>>]

\* x >> y for a register value x.  A negative count raises ValueError.
ShiftRight(x, y) ==
  IF Lt(y, Num(0)) THEN [exc |-> "ValueError", val |-> <<>>]
  ELSE IF Ge(y, Num(32)) THEN [exc |-> "none", val |-> Num(0)]
  ELSE [exc |-> "none", val |-> ShrN(x, y[2])]

\* int(b)
BoolInt(b) == IF b THEN Num(1) ELSE Num(0)

\* arith whose SLT compares the operands as they are, without sign_extend
arith_SltUnsigned(funct3, x, y) ==
  IF funct3 = ADDI THEN [exc |-> "none", val |-> Add(x, y), out |-> <<>>]
  ELSE IF funct3 = SLLI THEN
    [exc |-> ShiftLeft(x, y).exc, val |-> ShiftLeft(x, y).val, out |-> <<>>]
  ELSE IF funct3 = SRLI THEN
    [exc |-> ShiftRight(x, y).exc, val |-> ShiftRight(x, y).val, out |-> <<>>]
  ELSE IF funct3 = ORI THEN [exc |-> "none", val |-> Or(x, y), out |-> <<>>]
  ELSE IF funct3 = XORI THEN [exc |-> "none", val |-> Xor(x, y), out |-> <<>>]
  ELSE IF funct3 = ANDI THEN [exc |-> "none", val |-> And(x, y), out |-> <<>>]
  ELSE IF funct3 = SLT THEN
    [exc |-> "none", out |-> <<>>, val |-> BoolInt(Lt(x, y))]
  ELSE IF funct3 = SLTU THEN
    [exc |-> "none", val |-> BoolInt(Lt(x, y)), out |-> <<>>]
  ELSE [exc |-> "Exception: write arith funct3", val |-> <<>>, out |-> << <<"dump">> >>]

\* arith(funct3, x, y): the result is [exc, val, out]; dump() prints the
\* register file, recorded as the output item <<"dump">>.
arith(funct3, x, y) ==
  IF funct3 = ADDI THEN [exc |-> "none", val |-> Add(x, y), out |-> <<>>]
  ELSE IF funct3 = SLLI THEN
    [exc |-> ShiftLeft(x, y).exc, val |-> ShiftLeft(x, y).val, out |-> <<>>]
  ELSE IF funct3 = SRLI THEN
    [exc |-> ShiftRight(x, y).exc, val |-> ShiftRight(x, y).val, out |-> <<>>]
  ELSE IF funct3 = ORI THEN [exc |-> "none", val |-> Or(x, y), out |-> <<>>]
  ELSE IF funct3 = XORI THEN [exc |-> "none", val |-> Xor(x, y), out |-> <<>>]
  ELSE IF funct3 = ANDI THEN [exc |-> "none", val |-> And(x, y), out |-> <<>>]
  ELSE IF funct3 = SLT THEN
    [exc |-> "none", out |-> <<>>,
     val |-> BoolInt(Lt(sign_extend(x, 32), sign_extend(y, 32)))]
  ELSE IF funct3 = SLTU THEN
    [exc |-> "none", val |-> BoolInt(Lt(x, y)), out |-> <<>>]
  ELSE [exc |-> "Exception: write arith funct3", val |-> <<>>, out |-> << <<"dump">> >>]

\* ------------------------------------------------------------------------
\* step
\* ------------------------------------------------------------------------

\* gibi(s, e) of step, on the fetched word ins: (ins >> e) & ((1 << (s-e+1))-1).
\* The field is at most 20 bits wide and is a plain integer.
gibi(ins, s, e) ==
  LET r == ShrN(ins, e)
      w == s - e + 1
  IN IF w >= 16 THEN (r[1] % Pow2(w - 16)) * Half + r[2] ELSE r[2] % Pow2(w)

\* How a branch of step ends: "fall" reaches the trailing regfile[PC] += 4.
Fall(rf, out)       == [regs |-> rf, end |-> "fall", exc |-> "none", out |-> out]
ReturnTrue(rf)      == [regs |-> rf, end |-> "True", exc |-> "none", out |-> <<>>]
ReturnFalse(rf)     == [regs |-> rf, end |-> "False", exc |-> "none", out |-> <<>>]
Raise(rf, exc, out) == [regs |-> rf, end |-> "raise", exc |-> exc, out |-> out]

\* the JAL branch without its return True: it reaches regfile[PC] += 4
stepJAL_FallThrough(rf, ins) ==
  LET rd     == gibi(ins, 11, 7)
      offset == sign_extend(Num(
                  BitsOr(BitsOr(gibi(ins, 32, 31) * Pow2(20), gibi(ins, 30, 21) * 2, 22),
                         BitsOr(gibi(ins, 21, 20) * Pow2(11), gibi(ins, 19, 12) * Pow2(12), 22),
                         22)), 21)
      rf1    == setitem(rf, rd, Add(getitem(rf, PC), Num(4)))
      rf2    == setitem(rf1, PC, Add(getitem(rf1, PC), offset))
  IN Fall(rf2, <<>>)

\* opcode == Ops.JAL
stepJAL(rf, ins) ==
  LET rd     == gibi(ins, 11, 7)
      offset == sign_extend(Num(
                  BitsOr(BitsOr(gibi(ins, 32, 31) * Pow2(20), gibi(ins, 30, 21) * 2, 22),
                         BitsOr(gibi(ins, 21, 20) * Pow2(11), gibi(ins, 19, 12) * Pow2(12), 22),
                         22)), 21)
      rf1    == setitem(rf, rd, Add(getitem(rf, PC), Num(4)))
      rf2    == setitem(rf1, PC, Add(getitem(rf1, PC), offset))
  IN ReturnTrue(rf2)

\* opcode == Ops.JALR
stepJALR(rf, ins) ==
  LET rd  == gibi(ins, 11, 7)
      rs1 == gibi(ins, 19, 15)
      imm == sign_extend(Num(gibi(ins, 31, 20)), 12)
      rf1 == setitem(rf, rd, Add(getitem(rf, PC), Num(4)))
      rf2 == setitem(rf1, PC, Add(getitem(rf1, rs1), imm))
  IN ReturnTrue(rf2)

\* opcode == Ops.LUI: regfile[rd] = imm << 12
stepLUI(rf, ins) ==
  LET rd  == gibi(ins, 11, 7)
      imm == gibi(ins, 31, 12)
  IN Fall(setitem(rf, rd, <<imm \div 16, (imm % 16) * Pow2(12)>>), <<>>)

\* opcode == Ops.AUIPC
stepAUIPC(rf, ins) ==
  LET rd  == gibi(ins, 11, 7)
      imm == gibi(ins, 31, 20)
  IN Fall(setitem(rf, rd, Add(getitem(rf, PC), Num(imm))), <<>>)

\* opcode == Ops.OP
stepOP(rf, ins) ==
  LET rd     == gibi(ins, 11, 7)
      rs1    == gibi(ins, 19, 15)
      rs2    == gibi(ins, 24, 20)
      funct3 == gibi(ins, 14, 12)
      funct7 == gibi(ins, 31, 25)
      a      == arith(funct3, getitem(rf, rs1), getitem(rf, rs2))
  IN IF funct3 = ADD /\ funct7 = 32
       THEN Fall(setitem(rf, rd, Sub(getitem(rf, rs1), getitem(rf, rs2))), <<>>)
       ELSE IF a.exc # "none" THEN Raise(rf, a.exc, a.out)
       ELSE Fall(setitem(rf, rd, a.val), <<>>)

\* the IMM branch ending in return True, so that PC is not advanced
stepIMM_ReturnsEarly(rf, ins) ==
  LET rd     == gibi(ins, 11, 7)
      rs1    == gibi(ins, 19, 15)
      funct3 == gibi(ins, 14, 12)
      imm    == sign_extend(Num(gibi(ins, 31, 20)), 12)
      a      == arith(funct3, getitem(rf, rs1), imm)
  IN IF a.exc # "none" THEN Raise(rf, a.exc, a.out)
     ELSE ReturnTrue(setitem(rf, rd, a.val))

\* opcode == Ops.IMM
stepIMM(rf, ins) ==
  LET rd     == gibi(ins, 11, 7)
      rs1    == gibi(ins, 19, 15)
      funct3 == gibi(ins, 14, 12)
      imm    == sign_extend(Num(gibi(ins, 31, 20)), 12)
      a      == arith(funct3, getitem(rf, rs1), imm)
  IN IF a.exc # "none" THEN Raise(rf, a.exc, a.out)
     ELSE Fall(setitem(rf, rd, a.val), <<>>)

\* the branch condition whose BLT compares without sign_extend
branchCond_BltUnsigned(rf, funct3, rs1, rs2) ==
  IF funct3 = BEQ THEN [known |-> TRUE, cond |-> getitem(rf, rs1) = getitem(rf, rs2)]
  ELSE IF funct3 = BNE THEN [known |-> TRUE, cond |-> getitem(rf, rs1) # getitem(rf, rs2)]
  ELSE IF funct3 = BLT THEN [known |-> TRUE, cond |-> Lt(getitem(rf, rs1), getitem(rf, rs2))]
  ELSE IF funct3 = BGE THEN
    [known |-> TRUE,
     cond |-> Ge(sign_extend(getitem(rf, rs1), 32), sign_extend(getitem(rf, rs2), 32))]
  ELSE IF funct3 = BLTU THEN [known |-> TRUE, cond |-> Lt(getitem(rf, rs1), getitem(rf, rs2))]
  ELSE IF funct3 = BGEU THEN [known |-> TRUE, cond |-> Ge(getitem(rf, rs1), getitem(rf, rs2))]
  ELSE [known |-> FALSE, cond |-> FALSE]

\* the condition of a branch: [known, cond]
branchCond(rf, funct3, rs1, rs2) ==
  IF funct3 = BEQ THEN [known |-> TRUE, cond |-> getitem(rf, rs1) = getitem(rf, rs2)]
  ELSE IF funct3 = BNE THEN [known |-> TRUE, cond |-> getitem(rf, rs1) # getitem(rf, rs2)]
  ELSE IF funct3 = BLT THEN
    [known |-> TRUE,
     cond |-> Lt(sign_extend(getitem(rf, rs1), 32), sign_extend(getitem(rf, rs2), 32))]
  ELSE IF funct3 = BGE THEN
    [known |-> TRUE,
     cond |-> Ge(sign_extend(getitem(rf, rs1), 32), sign_extend(getitem(rf, rs2), 32))]
  ELSE IF funct3 = BLTU THEN [known |-> TRUE, cond |-> Lt(getitem(rf, rs1), getitem(rf, rs2))]
  ELSE IF funct3 = BGEU THEN [known |-> TRUE, cond |-> Ge(getitem(rf, rs1), getitem(rf, rs2))]
  ELSE [known |-> FALSE, cond |-> FALSE]

\* opcode == Ops.BRANCH
stepBRANCH(rf, ins) ==
  LET rs1    == gibi(ins, 19, 15)
      rs2    == gibi(ins, 24, 20)
      funct3 == gibi(ins, 14, 12)
      offset == sign_extend(Num(
                  BitsOr(BitsOr(gibi(ins, 32, 31) * Pow2(12), gibi(ins, 30, 25) * Pow2(5), 14),
                         BitsOr(gibi(ins, 11, 8) * 2, gibi(ins, 8, 7) * Pow2(11), 14),
                         14)), 13)
      c      == branchCond(rf, funct3, rs1, rs2)
  IN IF ~c.known THEN Raise(rf, "Exception: write funct3", << <<"dump">> >>)
     ELSE IF c.cond THEN ReturnTrue(setitem(rf, PC, Add(getitem(rf, PC), offset)))
     ELSE Fall(rf, <<>>)

\* the LOAD branch storing what it computed in rd
stepLOAD_WritesRd(rf, ins) ==
  LET rd     == gibi(ins, 11, 7)
      rs1    == gibi(ins, 19, 15)
      funct3 == gibi(ins, 14, 12)
      imm    == sign_extend(Num(gibi(ins, 31, 20)), 12)
      addr   == Add(getitem(rf, rs1), imm)
  IN Fall(setitem(rf, rd, addr), << <<"LOAD", addr>> >>)

\* opcode == Ops.LOAD: the address is printed, nothing is read
stepLOAD(rf, ins) ==
  LET rd     == gibi(ins, 11, 7)
      rs1    == gibi(ins, 19, 15)
      funct3 == gibi(ins, 14, 12)
      imm    == sign_extend(Num(gibi(ins, 31, 20)), 12)
      addr   == Add(getitem(rf, rs1), imm)
  IN Fall(rf, << <<"LOAD", addr>> >>)

\* opcode == Ops.STORE: the address and the value are printed, nothing is written
stepSTORE(rf, ins) ==
  LET rs1    == gibi(ins, 19, 15)
      rs2    == gibi(ins, 24, 20)
      width  == gibi(ins, 14, 12)
      offset == sign_extend(Num(BitsOr(gibi(ins, 31, 25) * Pow2(5), gibi(ins, 11, 7), 12)), 12)
      addr   == Add(getitem(rf, rs1), offset)
      value  == getitem(rf, rs2)
  IN Fall(rf, << <<"STORE", addr, value>> >>)

\* opcode == Ops.MISC
stepMISC(rf, ins) == Fall(rf, <<>>)

\* the SYSTEM branch whose CSRRW halts whatever the CSR address
stepSYSTEM_HaltAnyCsr(rf, ins) ==
  LET funct3 == gibi(ins, 14, 12)
      csr    == gibi(ins, 31, 20)
  IN IF funct3 = CSRRS THEN Fall(rf, <<>>)
     ELSE IF funct3 = CSRRW THEN ReturnFalse(rf)
     ELSE IF funct3 = CSRRWI THEN Fall(rf, <<>>)
     ELSE IF funct3 = ECALL THEN
       (IF Gt(getitem(rf, 3), Num(1))
          THEN Raise(rf, "Exception: FAILURE IN TEST, PLZ CHECK", << <<"ecall", getitem(rf, 3)>> >>)
          ELSE Fall(rf, << <<"ecall", getitem(rf, 3)>> >>))
     ELSE Raise(rf, "Exception: write more csr crap", <<>>)

\* the SYSTEM branch whose ECALL inspects register 10 (a0) instead of register 3
stepSYSTEM_EcallReadsA0(rf, ins) ==
  LET funct3 == gibi(ins, 14, 12)
      csr    == gibi(ins, 31, 20)
  IN IF funct3 = CSRRS THEN Fall(rf, <<>>)
     ELSE IF funct3 = CSRRW THEN
       (IF csr = 3072 THEN ReturnFalse(rf) ELSE Fall(rf, <<>>))
     ELSE IF funct3 = CSRRWI THEN Fall(rf, <<>>)
     ELSE IF funct3 = ECALL THEN
       (IF Gt(getitem(rf, 10), Num(1))
          THEN Raise(rf, "Exception: FAILURE IN TEST, PLZ CHECK", << <<"ecall", getitem(rf, 10)>> >>)
          ELSE Fall(rf, << <<"ecall", getitem(rf, 10)>> >>))
     ELSE Raise(rf, "Exception: write more csr crap", <<>>)

\* opcode == Ops.SYSTEM
stepSYSTEM(rf, ins) ==
  LET funct3 == gibi(ins, 14, 12)
      rd     == gibi(ins, 11, 7)
      rs1    == gibi(ins, 19, 15)
      csr    == gibi(ins, 31, 20)
  IN IF funct3 = CSRRS THEN Fall(rf, <<>>)
     ELSE IF funct3 = CSRRW THEN
       (IF csr = 3072 THEN ReturnFalse(rf) ELSE Fall(rf, <<>>))
     ELSE IF funct3 = CSRRWI THEN Fall(rf, <<>>)
     ELSE IF funct3 = ECALL THEN
       (IF Gt(getitem(rf, 3), Num(1))
          THEN Raise(rf, "Exception: FAILURE IN TEST, PLZ CHECK", << <<"ecall", getitem(rf, 3)>> >>)
          ELSE Fall(rf, << <<"ecall", getitem(rf, 3)>> >>))
     ELSE Raise(rf, "Exception: write more csr crap", <<>>)

\* the dispatch of step on the opcode; Ops(v) raises ValueError when v is the
\* value of no member, before the if chain is entered
decode(rf, ins) ==
  LET opcode == gibi(ins, 6, 0) IN
  IF opcode \notin OpsValues THEN Raise(rf, "ValueError", <<>>)
  ELSE IF opcode = JAL THEN stepJAL(rf, ins)
  ELSE IF opcode = JALR THEN stepJALR(rf, ins)
  ELSE IF opcode = LUI THEN stepLUI(rf, ins)
  ELSE IF opcode = AUIPC THEN stepAUIPC(rf, ins)
  ELSE IF opcode = OP THEN stepOP(rf, ins)
  ELSE IF opcode = IMM THEN stepIMM(rf, ins)
  ELSE IF opcode = BRANCH THEN stepBRANCH(rf, ins)
  ELSE IF opcode = LOAD THEN stepLOAD(rf, ins)
  ELSE IF opcode = STORE THEN stepSTORE(rf, ins)
  ELSE IF opcode = MISC THEN stepMISC(rf, ins)
  ELSE IF opcode = SYSTEM THEN stepSYSTEM(rf, ins)
  ELSE Raise(rf, "Exception: write op", << <<"dump">> >>)

\* the end of step: regfile[PC] += 4; return True
advance(rf) == setitem(rf, PC, Add(getitem(rf, PC), Num(4)))

\* step advancing PC right after the fetch, before the instruction is executed
step_AdvanceAtFetch(rf, mem) ==
  LET f == r32(mem, getitem(rf, PC)) IN
  IF f.exc # "none"
    THEN [regs |-> rf, ret |-> "raise", exc |-> f.exc, out |-> <<>>, ins |-> <<>>]
    ELSE
      LET d == decode(advance(rf), f.val) IN
      [regs |-> d.regs, ret |-> IF d.end = "fall" THEN "True" ELSE d.end,
       exc |-> d.exc, out |-> d.out, ins |-> f.val]

\* step(): the result is [regs, ret, exc, out, ins], ret being "True",
\* "False" or "raise"; ins is the fetched word, <<>> when the fetch raised.
step(rf, mem) ==
  LET f == r32(mem, getitem(rf, PC)) IN
  IF f.exc # "none"
    THEN [regs |-> rf, ret |-> "raise", exc |-> f.exc, out |-> <<>>, ins |-> <<>>]
    ELSE
      LET d == decode(rf, f.val) IN
      IF d.end = "fall"
        THEN [regs |-> advance(d.regs), ret |-> "True", exc |-> "none",
              out |-> d.out, ins |-> f.val]
        ELSE [regs |-> d.regs, ret |-> d.end, exc |-> d.exc, out |-> d.out, ins |-> f.val]

\* ------------------------------------------------------------------------
\* Inputs: instruction words and the segments the loader writes
\* ------------------------------------------------------------------------

\* the word with the fields of the R format; the I, S and B formats place
\* their immediate bits in the same positions
EncR(funct7, rs2, rs1, funct3, rd, opcode) ==
  <<funct7 * 512 + rs2 * 16 + (rs1 \div 2),
    (rs1 % 2) * 32768 + funct3 * 4096 + rd * 128 + opcode>>

\* the word with a 12-bit field in bits 31:20 (imm12 in 0 .. 4095)
EncI(imm12, rs1, funct3, rd, opcode) ==
  EncR(imm12 \div 32, imm12 % 32, rs1, funct3, rd, opcode)

\* the word with a 20-bit field in bits 31:12 (the U and J formats)
EncU(field20, rd, opcode) ==
  <<field20 \div 16, (field20 % 16) * 4096 + rd * 128 + opcode>>

\* the 12-bit two's-complement field of an immediate in -2048 .. 2047
Imm12(n) == n % 4096

\* the branch word whose architectural immediate is imm (even, -4096 .. 4094)
EncB(imm, rs2, rs1, funct3) ==
  LET u == imm % 8192 IN
  EncR((u \div 4096) * 64 + ((u \div 32) % 64), rs2, rs1, funct3,
       ((u \div 2) % 16) * 2 + ((u \div 2048) % 2), BRANCH)

\* the JAL word whose architectural immediate is imm (even, -2^20 .. 2^20 - 2)
EncJ(imm, rd) ==
  LET u == imm % Pow2(21) IN
  EncU((u \div Pow2(20)) * Pow2(19) + ((u \div 2) % 1024) * 512
         + ((u \div 2048) % 2) * 256 + ((u \div 4096) % 256), rd, JAL)

\* the four bytes of a word, little-endian, as they lie in a segment
Bytes(w) == <<w[2] % 256, w[2] \div 256, w[1] % 256, w[1] \div 256>>

RECURSIVE Prog(_)
Prog(ws_) == IF ws_ = <<>> THEN <<>> ELSE Bytes(Head(ws_)) \o Prog(Tail(ws_))

NOP == EncI(0, 0, ADDI, 0, IMM)
HALTW == EncI(3072, 1, CSRRW, 5, SYSTEM)
ECALLW == EncI(0, 0, ECALL, 0, SYSTEM)

\* programs loaded at the base that set registers up (two words each)
Setups ==
  { <<NOP, NOP>>,
    <<EncI(Imm12(-1), 0, ADDI, 1, IMM), EncI(1, 0, ADDI, 2, IMM)>>,
    <<EncU(524288, 1, LUI), EncI(2, 0, ADDI, 3, IMM)>> }

\* whole programs loaded at the base
ProgC3 ==
  <<EncI(5, 0, ADDI, 1, IMM), EncI(7, 0, ADDI, 2, IMM),
    EncR(0, 2, 1, ADD, 3, OP), ECALLW>>

ProgC10 ==
  <<EncU(0, 1, LUI), EncI(Imm12(-1), 1, ADDI, 1, IMM),
    EncR(0, 0, 1, SLT, 2, OP), EncR(0, 0, 1, SLTU, 2, OP)>>

Programs ==
  { ProgC3, ProgC10,
    <<EncJ(65536, 0)>>, <<EncJ(65532, 0)>>, <<EncJ(65534, 0)>>, <<EncJ(-4, 0)>> }

\* single instructions loaded behind a setup
ImmWords ==
  { NOP,
    EncI(Imm12(-1), 1, ADDI, 5, IMM), EncI(5, 1, ADDI, 0, IMM), EncI(1, 1, ADDI, 1, IMM),
    EncI(Imm12(-1), 1, SLT, 5, IMM), EncI(1, 1, SLT, 5, IMM),
    EncI(Imm12(-1), 1, SLTU, 5, IMM), EncI(1, 1, SLTU, 5, IMM),
    EncI(1, 1, SLLI, 5, IMM), EncI(31, 2, SLLI, 5, IMM), EncI(Imm12(-1), 1, SLLI, 5, IMM),
    EncI(4, 1, SRLI, 5, IMM), EncI(1024 + 4, 1, SRLI, 5, IMM), EncI(Imm12(-4), 1, SRLI, 5, IMM),
    EncI(Imm12(-1), 1, XORI, 5, IMM), EncI(240, 1, ORI, 5, IMM), EncI(Imm12(-16), 1, ANDI, 5, IMM) }

OpWords ==
  { EncR(f7, rs[2], rs[1], f3, 5, OP) :
      f7 \in {0, 32}, rs \in {<<1, 2>>, <<2, 1>>}, f3 \in 0 .. 7 }
  \cup { EncR(0, 0, 1, SLT, 1, OP), EncR(0, 0, 1, SLTU, 3, OP), EncR(0, 2, 1, ADD, 0, OP),
         EncR(96, 0, 1, SLLI, 5, OP) }

UpperWords ==
  { EncU(1048575, 5, LUI), EncU(74565, 0, LUI), EncU(786433, 0, LUI),
    EncU(74565, 5, AUIPC), EncU(1048575, 5, AUIPC) }

JumpWords ==
  { EncJ(0, 5), EncJ(0, 0), EncJ(-8, 5), EncJ(2, 5), EncJ(4096, 1),
    EncI(0, 1, 0, 5, JALR), EncI(4, 1, 0, 1, JALR), EncI(Imm12(-8), 1, 0, 0, JALR),
    EncI(8, 0, 0, 5, JALR) }

BranchWords ==
  { EncB(imm, rs[2], rs[1], f3) :
      imm \in {0, -8, 2}, rs \in {<<1, 2>>, <<2, 1>>, <<1, 1>>}, f3 \in 0 .. 7 }

MemWords ==
  { EncI(4, 1, 2, 5, LOAD), EncI(Imm12(-4), 1, 0, 5, LOAD),
    EncR(127, 2, 1, 2, 28, STORE), EncR(0, 1, 2, 0, 4, STORE), EncI(0, 0, 0, 0, MISC) }

SystemWords ==
  { ECALLW, HALTW, EncI(3072, 0, CSRRW, 0, SYSTEM), EncI(3073, 1, CSRRW, 5, SYSTEM),
    EncI(1024, 1, CSRRW, 5, SYSTEM) }
  \cup { EncI(3072, 1, f3, 5, SYSTEM) : f3 \in 2 .. 7 }

BadWords == { <<65535, 65535>>, <<0, 127>>, EncI(3072, 1, 1, 5, 11) }

Words ==
  ImmWords \cup OpWords \cup UpperWords \cup JumpWords \cup BranchWords
    \cup MemWords \cup SystemWords \cup BadWords

\* MemBase + n for a plain n
At(n) == Add(MemBase, Num(n))

\* what the loader may write: <<dat, addr>>
Loads ==
  { <<Prog(p), At(0)>> : p \in Setups \cup Programs }
    \cup { <<Prog(<<w>>), At(8)>> : w \in Words }
    \cup { <<Prog(<<NOP, HALTW>>), At(65532)>>, <<Prog(<<HALTW>>), At(65532)>>,
           <<Prog(<<NOP>>), At(-4)>>, <<Prog(<<HALTW>>), At(65536)>>,
           <<Prog(<<NOP>>), <<0, 0>>>>, <<Prog(<<NOP>>), <<65535, 65532>>>>,
           << <<255>>, At(65535)>>, << <<255, 255>>, At(65535)>>, << <<>>, At(16)>> }

\* ------------------------------------------------------------------------
\* The driver (__main__): for each test file, reset(), one ws per segment,
\* regfile[PC] = 0x80000000, then step() until it returns False.  An
\* exception ends the process.
\* ------------------------------------------------------------------------

\* the most segments one file is given
MaxSegs == 2

VARIABLES
  regfile,   \* regfile.regs
  memory,    \* memory
  ctl,       \* where the driver is: "load", "run", "halt" (step returned
             \* False), "fatal" (an exception ended the process)
  nsegs,     \* the segments written so far in the segment loop
  obs        \* the last operation, what it was given and what it answered;
             \* mem0 is the memory before an operation that is not to change
             \* it (a step, a write that fails), NoMem after any other

vars == <<regfile, memory, ctl, nsegs, obs>>

NoMem == [len |-> 0, nz |-> NoBytes]

NoObs ==
  [act |-> "reset", regs0 |-> RegfileInit, mem0 |-> MemoryInit, ins |-> <<>>,
   ret |-> "none", exc |-> "none", out |-> <<>>, dat |-> <<>>, addr |-> <<>>]

\* the state after reset() for the first file
Init ==
  /\ regfile = RegfileInit
  /\ memory = MemoryInit
  /\ ctl = "load"
  /\ nsegs = 0
  /\ obs = NoObs

\* ws(s.data(), s.header.p_paddr)
Load ==
  /\ ctl = "load"
  /\ nsegs < MaxSegs
  /\ \E ld \in Loads :
       LET w == ws(memory, ld[1], ld[2]) IN
       /\ memory' = w.mem
       /\ ctl' = IF w.exc = "none" THEN "load" ELSE "fatal"
       /\ nsegs' = nsegs + 1
       /\ obs' = [NoObs EXCEPT !.act = "ws", !.regs0 = regfile,
                               !.mem0 = IF w.exc = "none" THEN NoMem ELSE memory,
                               !.exc = w.exc, !.dat = ld[1], !.addr = ld[2]]
  /\ UNCHANGED regfile

\* regfile[PC] = 0x80000000
Start ==
  /\ ctl = "load"
  /\ regfile' = setitem(regfile, PC, MemBase)
  /\ ctl' = "run"
  /\ nsegs' = 0
  /\ obs' = [NoObs EXCEPT !.act = "start", !.regs0 = regfile, !.mem0 = memory]
  /\ UNCHANGED memory

\* one iteration of while step()
Step ==
  /\ ctl = "run"
  /\ LET s == step(regfile, memory) IN
     /\ regfile' = s.regs
     /\ ctl' = IF s.ret = "True" THEN "run" ELSE IF s.ret = "False" THEN "halt" ELSE "fatal"
     /\ obs' = [NoObs EXCEPT !.act = "step", !.regs0 = regfile, !.mem0 = memory,
                             !.ins = s.ins, !.ret = s.ret, !.exc = s.exc, !.out = s.out]
  /\ UNCHANGED <<memory, nsegs>>

\* the next file: reset()
Reset ==
  /\ ctl = "halt"
  /\ regfile' = RegfileInit
  /\ memory' = MemoryInit
  /\ ctl' = "load"
  /\ nsegs' = 0
  /\ obs' = NoObs

Next == Load \/ Start \/ Step \/ Reset

Spec == Init /\ [][Next]_vars

\* ------------------------------------------------------------------------
\* Vocabulary of the properties, stated on the bits of a word and on the
\* 32-bit values themselves (not through gibi, sign_extend or arith)
\* ------------------------------------------------------------------------

Stepped == obs.act = "step"

\* a step whose fetch returned a word
Fetched == obs.act = "step" /\ obs.ins # <<>>

OpcodeOf(w) == w[2] % 128
RdOf(w)     == (w[2] \div 128) % 32
Funct3Of(w) == (w[2] \div 4096) % 8
Rs1Of(w)    == (w[2] \div 32768) + 2 * (w[1] % 16)
Rs2Of(w)    == (w[1] \div 16) % 32
CsrOf(w)    == w[1] \div 16

\* a value in [0, 2^32)
IsWord32(a) == a[1] \in 0 .. 65535 /\ a[2] \in 0 .. 65535

\* V mod 2^32
Mod32(v) == <<v[1] - 65536 * (v[1] \div 65536), v[2]>>

\* (a + 4) mod 2^32 for a 32-bit a
PlusFour(a) ==
  IF a[2] + 4 < 65536 THEN <<a[1], a[2] + 4>>
  ELSE <<(a[1] + 1) % 65536, a[2] + 4 - 65536>>

\* a < b as unsigned 32-bit values
UnsignedLt(a, b) == a[1] < b[1] \/ (a[1] = b[1] /\ a[2] < b[2])

\* a < b as two's-complement 32-bit values: compare with the sign bits flipped
SignedLt(a, b) ==
  UnsignedLt(<<(a[1] + 32768) % 65536, a[2]>>, <<(b[1] + 32768) % 65536, b[2]>>)

\* the condition of the branch funct3 on the values a, b
BranchTaken(f3, a, b) ==
  CASE f3 = 0 -> a = b
    [] f3 = 1 -> a # b
    [] f3 = 4 -> SignedLt(a, b)
    [] f3 = 5 -> ~SignedLt(a, b)
    [] f3 = 6 -> UnsignedLt(a, b)
    [] f3 = 7 -> ~UnsignedLt(a, b)

\* the architectural J immediate of a word, as a signed number
JImmOf(w) ==
  LET b31  == w[1] \div 32768
      b20  == (w[1] \div 16) % 2
      mid  == (w[1] \div 32) % 1024
      high == (w[1] % 16) * 16 + (w[2] \div 4096)
  IN b31 * 1048576 + high * 4096 + b20 * 2048 + mid * 2 - b31 * 2097152

\* the registers after a step that only advanced PC by 4
OnlyPcPlusFour == regfile = [obs.regs0 EXCEPT ![PC] = PlusFour(@)]

\* the memory holding exactly the given program at the base
ImageOf(p) == ws(MemoryInit, Prog(p), MemBase).mem

ImageC3 == ImageOf(ProgC3)

ImageC10 == ImageOf(ProgC10)

\* ------------------------------------------------------------------------
\* C1
\* ------------------------------------------------------------------------

C1Values == { <<5, 7>>, <<65536, 3>>, <<-1, 65535>>, <<-65537, 12>> }

\* C1: in every state reached by loader writes and steps, register 0 reads
\* 0 and each of the 33 registers holds a value in [0, 2^32); writing V to a
\* register 1..31 of the register file stores V mod 2^32, and writing to
\* register 0 is discarded.
C1_Registers32Bit ==
  /\ getitem(regfile, 0) = <<0, 0>>
  /\ \A i \in 0 .. 32 : IsWord32(getitem(regfile, i))
  /\ \A r \in 1 .. 31 : \A v \in C1Values :
       getitem(setitem(regfile, r, v), r) = Mod32(v)
  /\ \A v \in C1Values : setitem(regfile, 0, v) = regfile

\* a step wrote 0xFFFFFFFF + 1 to x1, which holds 0
C1_Witness ==
  /\ Fetched /\ obs.ret = "True"
  /\ RdOf(obs.ins) = 1
  /\ obs.regs0[1] = <<65535, 65535>>
  /\ regfile[1] = <<0, 0>>

\* ------------------------------------------------------------------------
\* C2
\* ------------------------------------------------------------------------

IsHaltWord(w) == OpcodeOf(w) = 115 /\ Funct3Of(w) = 1 /\ CsrOf(w) = 3072

\* C2: a step returns False (HALT) exactly when the fetched word has opcode
\* SYSTEM, funct3 001 and bits 31:20 equal to 3072; the halting step changes
\* no register, PC included; a step that neither halts nor raises returns
\* True (CONTINUE).
C2_HaltExactly ==
  Stepped =>
    /\ (obs.ret = "False") <=> (obs.ins # <<>> /\ IsHaltWord(obs.ins))
    /\ obs.ret = "False" => regfile = obs.regs0
    /\ obs.ret \in {"True", "False", "raise"}
    /\ (ctl = "halt") <=> (obs.ret = "False")

\* a step halted with registers set up before it
C2_Witness ==
  /\ Stepped /\ obs.ret = "False"
  /\ regfile[1] # <<0, 0>>
  /\ regfile[PC] = obs.regs0[PC]

\* ------------------------------------------------------------------------
\* C3
\* ------------------------------------------------------------------------

C3_Failure ==
  /\ ctl = "fatal"
  /\ obs.act = "step"
  /\ regfile[3] = <<0, 12>>
  /\ obs.out = << <<"ecall", <<0, 12>> >> >>
  /\ obs.exc = "Exception: FAILURE IN TEST, PLZ CHECK"

\* C3 as stated: the run of the program ADDI x1,x0,5; ADDI x2,x0,7;
\* ADD x3,x1,x2; ECALL ends with x3 = 12 and the ECALL reported as code 0,
\* not as a fatal test failure.
C3_Original ==
  (memory = ImageC3 /\ obs.act = "step" /\ ctl \in {"halt", "fatal"}) =>
    /\ regfile[3] = <<0, 12>>
    /\ obs.out = << <<"ecall", <<0, 0>> >> >>
    /\ ctl # "fatal"

\* C3 amended: the run of that program from PC = 0x80000000 stops after
\* its four instructions: PC only moves forward through the program, the
\* ADD leaves x3 = 12, and the ECALL reports code 12 (the value of register
\* 3) and raises the fatal test failure, which ends the step loop.
C3_Amended ==
  (memory = ImageC3 /\ obs.act \in {"start", "step"}) =>
    \/ /\ ctl = "run" /\ regfile[PC] = <<32768, 0>>
       /\ regfile[1] = <<0, 0>> /\ regfile[2] = <<0, 0>> /\ regfile[3] = <<0, 0>>
    \/ /\ ctl = "run" /\ regfile[PC] = <<32768, 4>>
       /\ regfile[1] = <<0, 5>> /\ regfile[2] = <<0, 0>> /\ regfile[3] = <<0, 0>>
    \/ /\ ctl = "run" /\ regfile[PC] = <<32768, 8>>
       /\ regfile[1] = <<0, 5>> /\ regfile[2] = <<0, 7>> /\ regfile[3] = <<0, 0>>
    \/ /\ ctl = "run" /\ regfile[PC] = <<32768, 12>>
       /\ regfile[1] = <<0, 5>> /\ regfile[2] = <<0, 7>> /\ regfile[3] = <<0, 12>>
    \/ /\ C3_Failure /\ regfile[PC] = <<32768, 12>>

\* the run of the program has ended at its ECALL
C3_Witness == memory = ImageC3 /\ C3_Failure /\ regfile[PC] = <<32768, 12>>

\* ------------------------------------------------------------------------
\* C4
\* ------------------------------------------------------------------------

\* C4: a step that raises (an opcode field outside the enumerated set, an
\* unrecognized funct3 under BRANCH or SYSTEM, a failure reported by ECALL,
\* a fetch out of bounds, an error inside arith) leaves the 33 registers and
\* the memory as they were before the step and ends the run; a word whose
\* opcode field is outside the enumerated set always raises.
C4_FatalChangesNothing ==
  Stepped =>
    /\ obs.ret = "raise" => (regfile = obs.regs0 /\ memory = obs.mem0 /\ ctl = "fatal")
    /\ (obs.ins # <<>> /\ OpcodeOf(obs.ins) \notin {55, 3, 35, 23, 99, 111, 103, 19, 51, 15, 115})
         => (obs.ret = "raise" /\ obs.exc = "ValueError")

\* a word with an opcode outside the set was fetched at a PC the run had
\* advanced to, with registers set up
C4_Witness ==
  /\ Fetched /\ obs.ret = "raise"
  /\ OpcodeOf(obs.ins) = 127
  /\ obs.regs0[1] = <<65535, 65535>>
  /\ regfile[PC] = <<32768, 8>>

\* ------------------------------------------------------------------------
\* C5
\* ------------------------------------------------------------------------

\* C5: a JAL step returns True having set rd (rd # 0) to (PC_before + 4)
\* mod 2^32 and no other general register; PC is not advanced by 4 on top of
\* the jump: with an immediate of 0 PC is what it was, and for every word
\* whose bit 21 is clear PC is (PC_before + immediate) mod 2^32.
C5_JalLinksAndJumps ==
  (Fetched /\ OpcodeOf(obs.ins) = 111) =>
    /\ obs.ret = "True"
    /\ RdOf(obs.ins) # 0 => regfile[RdOf(obs.ins)] = PlusFour(obs.regs0[PC])
    /\ \A i \in 0 .. 31 : i # RdOf(obs.ins) => regfile[i] = obs.regs0[i]
    /\ JImmOf(obs.ins) = 0 => regfile[PC] = obs.regs0[PC]
    /\ (obs.ins[1] \div 32) % 2 = 0 =>
         regfile[PC] = Mod32(Add(obs.regs0[PC], Num(JImmOf(obs.ins))))

\* JAL x5 with immediate 0 was executed
C5_Witness ==
  /\ Fetched /\ OpcodeOf(obs.ins) = 111
  /\ RdOf(obs.ins) = 5 /\ JImmOf(obs.ins) = 0
  /\ regfile[5] = <<32768, 12>>
  /\ regfile[PC] = <<32768, 8>>

\* ------------------------------------------------------------------------
\* C6
\* ------------------------------------------------------------------------

\* C6: a BRANCH step with funct3 BEQ, BNE, BLT, BGE, BLTU or BGEU whose
\* condition is false on the register values changes only PC, to
\* (PC_before + 4) mod 2^32, and returns True, whatever the immediate bits.
C6_BranchNotTaken ==
  (/\ Fetched /\ OpcodeOf(obs.ins) = 99
   /\ Funct3Of(obs.ins) \in {0, 1, 4, 5, 6, 7}
   /\ ~BranchTaken(Funct3Of(obs.ins), obs.regs0[Rs1Of(obs.ins)], obs.regs0[Rs2Of(obs.ins)]))
    => (obs.ret = "True" /\ OnlyPcPlusFour /\ memory = obs.mem0 /\ ctl = "run")

\* BLT x2, x1 was not taken with x2 = 1 and x1 = 0xFFFFFFFF, immediate bits set
C6_Witness ==
  /\ Fetched /\ OpcodeOf(obs.ins) = 99 /\ Funct3Of(obs.ins) = 4
  /\ Rs1Of(obs.ins) = 2 /\ Rs2Of(obs.ins) = 1
  /\ obs.regs0[2] = <<0, 1>> /\ obs.regs0[1] = <<65535, 65535>>
  /\ (obs.ins[2] \div 256) % 2 = 1
  /\ regfile[PC] = <<32768, 12>>

\* ------------------------------------------------------------------------
\* C7
\* ------------------------------------------------------------------------

\* C7: a step that executes the word 0x00000013 leaves registers 0..31 and
\* the memory unchanged, sets PC to (PC_before + 4) mod 2^32 and returns True.
C7_Nop ==
  (Fetched /\ obs.ins = <<0, 19>>) =>
    (obs.ret = "True" /\ OnlyPcPlusFour /\ memory = obs.mem0 /\ ctl = "run")

\* the NOP was executed with registers set up
C7_Witness ==
  /\ Fetched /\ obs.ins = <<0, 19>>
  /\ obs.regs0[1] = <<65535, 65535>> /\ obs.regs0[2] = <<0, 1>>
  /\ regfile[PC] = <<32768, 12>>

\* ------------------------------------------------------------------------
\* C8
\* ------------------------------------------------------------------------

\* MemBase + MemSize
MemEnd == <<32769, 0>>

\* C8: after any sequence of segment writes the memory is 65536 bytes, and
\* a write below the base, or one whose end address + len(bytes) is beyond
\* the end of the region, fails with an assertion and leaves the memory
\* unchanged.
C8_MemoryFixedSize ==
  /\ memory.len = 65536
  /\ (obs.act = "ws" /\ (UnsignedLt(obs.addr, MemBase)
                          \/ UnsignedLt(MemEnd, Add(obs.addr, Num(Len(obs.dat))))))
       => (obs.exc = "AssertionError" /\ memory = obs.mem0)

\* ------------------------------------------------------------------------
\* C9
\* ------------------------------------------------------------------------

\* the address a and a + 3 lie in [0x80000000, 0x80010000)
InRegion(a) == ~UnsignedLt(a, MemBase) /\ UnsignedLt(Add(a, Num(3)), MemEnd)

\* the little-endian value of the 4 bytes of mem at address a of the region
LittleEndianAt(mem, a) ==
  LET n == (a[1] - 32768) * 65536 + a[2] IN
  << ByteAt(mem, n + 2) + 256 * ByteAt(mem, n + 3), ByteAt(mem, n) + 256 * ByteAt(mem, n + 1) >>

\* C9: the fetch of a step returns the little-endian value of the 4 bytes at
\* PC when PC and PC + 3 lie in the region, and raises, returning no value,
\* when PC or PC + 3 lies outside it.
C9_FetchInRegionOnly ==
  Stepped =>
    IF InRegion(obs.regs0[PC])
      THEN obs.ins = LittleEndianAt(obs.mem0, obs.regs0[PC])
      ELSE /\ obs.ins = <<>> /\ obs.ret = "raise"
           /\ obs.exc \in {"Exception: read out of bounds", "struct.error"}

\* ------------------------------------------------------------------------
\* C10
\* ------------------------------------------------------------------------

\* C10: an OP step with funct3 SLT sets rd to 1 if rs1_val < rs2_val as
\* signed 32-bit values and to 0 otherwise, one with funct3 SLTU does so for
\* the unsigned values; in the run of LUI x1,0; ADDI x1,x1,-1; SLT x2,x1,x0;
\* SLTU x2,x1,x0 the register x1 holds 0xFFFFFFFF after the ADDI, x2 holds 1
\* after the SLT and 0 after the SLTU.
C10_SltSltu ==
  /\ (Fetched /\ OpcodeOf(obs.ins) = 51 /\ Funct3Of(obs.ins) \in {2, 3}) =>
       /\ obs.ret = "True"
       /\ RdOf(obs.ins) # 0 =>
            regfile[RdOf(obs.ins)] =
              LET a == obs.regs0[Rs1Of(obs.ins)]
                  b == obs.regs0[Rs2Of(obs.ins)]
                  lt == IF Funct3Of(obs.ins) = 2 THEN SignedLt(a, b) ELSE UnsignedLt(a, b)
              IN IF lt THEN <<0, 1>> ELSE <<0, 0>>
  /\ (memory = ImageC10 /\ ctl = "run") =>
       /\ regfile[PC] = <<32768, 8>> => regfile[1] = <<65535, 65535>>
       /\ regfile[PC] = <<32768, 12>> => (regfile[1] = <<65535, 65535>> /\ regfile[2] = <<0, 1>>)
       /\ regfile[PC] = <<32768, 16>> => (regfile[1] = <<65535, 65535>> /\ regfile[2] = <<0, 0>>)

\* the run of that program has executed its SLTU, which cleared x2
C10_Witness ==
  /\ memory = ImageC10 /\ ctl = "run"
  /\ Fetched /\ Funct3Of(obs.ins) = 3
  /\ regfile[PC] = <<32768, 16>>
  /\ obs.regs0[2] = <<0, 1>> /\ regfile[2] = <<0, 0>>

\* ------------------------------------------------------------------------
\* C11
\* ------------------------------------------------------------------------

\* bit l - 1 of x is set, for x in [0, 2^l)
TopBitSet(x, l) ==
  IF l > 16 THEN (x[1] \div (2 ^ (l - 17))) % 2 = 1
  ELSE (x[2] \div (2 ^ (l - 1))) % 2 = 1

\* x - 2^l when bit l - 1 of x is set, x otherwise
SignedOf(x, l) ==
  IF ~TopBitSet(x, l) THEN x
  ELSE IF l >= 16 THEN <<x[1] - 2 ^ (l - 16), x[2]>>
  ELSE <<-1, 65536 - 2 ^ l + x[2]>>

\* the pair of 2^k - d for 1 <= k <= 32 and d in {0, 1}
PowLess(k, d) ==
  IF d = 0 THEN (IF k >= 16 THEN <<2 ^ (k - 16), 0>> ELSE <<0, 2 ^ k>>)
  ELSE (IF k > 16 THEN <<2 ^ (k - 16) - 1, 65535>> ELSE <<0, 2 ^ k - 1>>)

\* values of [0, 2^l): the boundaries, and what the emulator itself extends
\* in the current state (the top l bits of the fetched word, the registers)
C11Inputs(l) ==
  { <<0, 0>>, <<0, 1>>, PowLess(l - 1, 1), PowLess(l - 1, 0), PowLess(l, 1) }
    \cup (IF obs.ins = <<>> THEN {}
          ELSE IF l = 12 THEN { <<0, obs.ins[1] \div 16>> }
          ELSE IF l = 13 THEN { <<0, obs.ins[1] \div 8>> }
          ELSE IF l = 21 THEN { <<obs.ins[1] \div 2048, (obs.ins[1] % 2048) * 32 + (obs.ins[2] \div 2048)>> }
          ELSE {})
    \cup (IF l = 32 THEN { regfile[i] : i \in 0 .. 32 } ELSE {})

\* C11: for every width L in {12, 13, 21, 32} and x in [0, 2^L),
\* sign_extend(x, L) is x - 2^L when bit L-1 of x is set and x otherwise
\* (0x7FF -> 2047, 0x800 -> -2048, 0xFFF -> -1 for L = 12), and sign_extend
\* with the same L applied to that result returns it unchanged.
C11_SignExtend ==
  /\ \A l \in {12, 13, 21, 32} : \A x \in C11Inputs(l) :
       /\ sign_extend(x, l) = SignedOf(x, l)
       /\ sign_extend(sign_extend(x, l), l) = sign_extend(x, l)
  /\ sign_extend(<<0, 2047>>, 12) = <<0, 2047>>
  /\ sign_extend(<<0, 2048>>, 12) = <<-1, 63488>>
  /\ sign_extend(<<0, 4095>>, 12) = <<-1, 65535>>

\* ADDI x5, x1, -1 was executed with x1 = 0: the field 0xFFF was extended
\* to -1 and x5 holds 0xFFFFFFFF
C11_Witness ==
  /\ Fetched /\ OpcodeOf(obs.ins) = 19 /\ Funct3Of(obs.ins) = 0
  /\ CsrOf(obs.ins) = 4095 /\ RdOf(obs.ins) = 5 /\ Rs1Of(obs.ins) = 1
  /\ obs.regs0[1] = <<0, 0>>
  /\ regfile[5] = <<65535, 65535>>
  /\ <<0, 4095>> \in C11Inputs(12)

\* ------------------------------------------------------------------------
\* C12
\* ------------------------------------------------------------------------

\* the I immediate of a word (bits 31:20), as a signed number
IImmOf(w) == IF CsrOf(w) >= 2048 THEN CsrOf(w) - 4096 ELSE CsrOf(w)

\* C12: a JALR step sets PC to (the value rs1 held before the step + the
\* sign-extended bits 31:20) mod 2^32 and rd (rd # 0) to (PC_before + 4)
\* mod 2^32, for every rd and rs1, rd = rs1 included.
C12_Jalr ==
  (Fetched /\ OpcodeOf(obs.ins) = 103) =>
    /\ obs.ret = "True"
    /\ regfile[PC] = Mod32(Add(obs.regs0[Rs1Of(obs.ins)], Num(IImmOf(obs.ins))))
    /\ RdOf(obs.ins) # 0 => regfile[RdOf(obs.ins)] = PlusFour(obs.regs0[PC])

\* ------------------------------------------------------------------------
\* C13
\* ------------------------------------------------------------------------

\* the architectural B immediate of a word, as a signed number
BImmOf(w) ==
  LET b31 == w[1] \div 32768
      b7  == (w[2] \div 128) % 2
      hi  == (w[1] \div 512) % 64
      lo  == (w[2] \div 256) % 16
  IN b7 * 2048 + hi * 32 + lo * 2 - b31 * 4096

\* C13: a BRANCH step whose condition is true on the register values sets PC
\* to (PC_before + imm) mod 2^32, imm being the sign-extended 13-bit B
\* immediate of the word, whatever the instruction bits (bit 8 set
\* included); no 4 is added and no other register changes.
C13_BranchTaken ==
  (/\ Fetched /\ OpcodeOf(obs.ins) = 99
   /\ Funct3Of(obs.ins) \in {0, 1, 4, 5, 6, 7}
   /\ BranchTaken(Funct3Of(obs.ins), obs.regs0[Rs1Of(obs.ins)], obs.regs0[Rs2Of(obs.ins)]))
    => /\ obs.ret = "True"
       /\ regfile = [obs.regs0 EXCEPT ![PC] = Mod32(Add(@, Num(BImmOf(obs.ins))))]

\* ------------------------------------------------------------------------
\* C14
\* ------------------------------------------------------------------------

\* C14: a JAL step sets PC to (PC_before + imm) mod 2^32, imm being the
\* sign-extended 21-bit J immediate of the word, whatever the instruction
\* bits (bit 21 set included).
C14_JalTarget ==
  (Fetched /\ OpcodeOf(obs.ins) = 111) =>
    regfile[PC] = Mod32(Add(obs.regs0[PC], Num(JImmOf(obs.ins))))

\* ------------------------------------------------------------------------
\* C15
\* ------------------------------------------------------------------------

\* bits 31:12 of a word, as a pair
Field20Of(w) == <<w[1] \div 4096, (w[1] % 4096) * 16 + (w[2] \div 4096)>>

\* C15: an AUIPC step sets rd (rd # 0) to (PC_before + F) mod 2^32, F being
\* the raw, unshifted 20-bit field bits 31:12 of the word, and then advances
\* PC by 4.
C15_Auipc ==
  (Fetched /\ OpcodeOf(obs.ins) = 23 /\ RdOf(obs.ins) # 0) =>
    /\ obs.ret = "True"
    /\ regfile[RdOf(obs.ins)] = Mod32(Add(obs.regs0[PC], Field20Of(obs.ins)))
    /\ regfile[PC] = PlusFour(obs.regs0[PC])

\* ------------------------------------------------------------------------
\* C16
\* ------------------------------------------------------------------------

\* the sign-extended 12-bit immediate of a word taken mod 2^32
IImm32Of(w) == IF CsrOf(w) >= 2048 THEN <<65535, 61440 + CsrOf(w)>> ELSE <<0, CsrOf(w)>>

\* C16: an IMM step with funct3 SLTIU (011) sets rd (rd # 0) to 1 if
\* rs1_val is less than the sign-extended immediate taken mod 2^32, both as
\* unsigned 32-bit values, and to 0 otherwise, for every immediate, the
\* negative ones (bit 31 of the word set) included.
C16_Sltiu ==
  (Fetched /\ OpcodeOf(obs.ins) = 19 /\ Funct3Of(obs.ins) = 3 /\ RdOf(obs.ins) # 0) =>
    /\ obs.ret = "True"
    /\ regfile[RdOf(obs.ins)] =
         IF UnsignedLt(obs.regs0[Rs1Of(obs.ins)], IImm32Of(obs.ins)) THEN <<0, 1>> ELSE <<0, 0>>

\* ------------------------------------------------------------------------
\* C17
\* ------------------------------------------------------------------------

\* C17: a SYSTEM step whose funct3 is CSRRW (001), CSRRS (010), CSRRC (011),
\* CSRRWI (101), CSRRSI (110) or CSRRCI (111), other than CSRRW to CSR 3072,
\* is not fatal: it changes no general-purpose register, advances PC by 4
\* and returns True.
C17_CsrNotFatal ==
  (/\ Fetched /\ OpcodeOf(obs.ins) = 115
   /\ Funct3Of(obs.ins) \in {1, 2, 3, 5, 6, 7}
   /\ ~IsHaltWord(obs.ins))
    => (obs.ret = "True" /\ OnlyPcPlusFour /\ ctl = "run")

\* ------------------------------------------------------------------------
\* C18
\* ------------------------------------------------------------------------

\* the step raised in its fetch: no word was returned
FetchFatal == Stepped /\ obs.ret = "raise" /\ obs.ins = <<>>

\* the step raised on a word whose opcode is not enumerated, or whose funct3
\* is not one its group enumerates (BRANCH 010, 011; SYSTEM 100), or inside
\* arith on an unknown funct3
DecodeFatal ==
  /\ Fetched /\ obs.ret = "raise"
  /\ \/ OpcodeOf(obs.ins) \notin {55, 3, 35, 23, 99, 111, 103, 19, 51, 15, 115}
     \/ OpcodeOf(obs.ins) = 99 /\ Funct3Of(obs.ins) \in {2, 3}
     \/ OpcodeOf(obs.ins) = 115 /\ Funct3Of(obs.ins) = 4
     \/ OpcodeOf(obs.ins) \in {19, 51} /\ obs.exc = "Exception: write arith funct3"

\* the step printed the register dump
Dumped == \E i \in 1 .. Len(obs.out) : obs.out[i] = <<"dump">>

\* C18: a step that ends the run with a fetch outside the mapped region, or
\* with an unrecognized opcode or an unrecognized funct3 of its group, has
\* emitted a register dump before the abort.
C18_DumpBeforeAbort == (FetchFatal \/ DecodeFatal) => Dumped

\* ------------------------------------------------------------------------
\* C19
\* ------------------------------------------------------------------------

Funct7Of(w) == w[1] \div 512

\* the logical right shift of a 32-bit a by n in 0 .. 31
LogicalShr(a, n) ==
  IF n >= 16 THEN <<0, a[1] \div (2 ^ (n - 16))>>
  ELSE <<a[1] \div (2 ^ n), (a[1] % (2 ^ n)) * (2 ^ (16 - n)) + (a[2] \div (2 ^ n))>>

\* the arithmetic right shift of a 32-bit a by n in 0 .. 31: the vacated
\* high bits are copies of bit 31
ArithShr(a, n) ==
  IF a[1] < 32768 THEN LogicalShr(a, n)
  ELSE IF n >= 16 THEN <<65535, 65536 + ((a[1] - 65536) \div (2 ^ (n - 16)))>>
  ELSE <<65536 + ((a[1] - 65536) \div (2 ^ n)),
         (a[1] % (2 ^ n)) * (2 ^ (16 - n)) + (a[2] \div (2 ^ n))>>

\* C19: for funct3 101 an OP word with funct7 0100000 (SRA) and an IMM word
\* with bit 30 set (SRAI) set rd (rd # 0) to the arithmetic right shift of
\* rs1_val by the 5-bit shift amount (the low 5 bits of rs2_val, bits 24:20
\* of the word), and funct7 0000000 gives the logical shift.
C19_SraSrl ==
  (/\ Fetched /\ OpcodeOf(obs.ins) \in {19, 51} /\ Funct3Of(obs.ins) = 5
   /\ Funct7Of(obs.ins) \in {0, 32} /\ RdOf(obs.ins) # 0)
    => LET a  == obs.regs0[Rs1Of(obs.ins)]
           sh == IF OpcodeOf(obs.ins) = 51 THEN obs.regs0[Rs2Of(obs.ins)][2] % 32
                 ELSE Rs2Of(obs.ins)
       IN /\ obs.ret = "True"
          /\ regfile[RdOf(obs.ins)] =
               IF Funct7Of(obs.ins) = 32 THEN ArithShr(a, sh) ELSE LogicalShr(a, sh)

\* ------------------------------------------------------------------------
\* C20
\* ------------------------------------------------------------------------

\* C20: a LOAD or STORE step reads and writes no memory and writes no
\* register: the memory and registers 0..31 (the rd of a LOAD included) are
\* unchanged, PC becomes (PC_before + 4) mod 2^32 and the step returns True;
\* and no step of any kind changes the memory, so that its content is
\* constant once the segments are loaded.
C20_LoadStoreInert ==
  /\ (Fetched /\ OpcodeOf(obs.ins) \in {3, 35}) =>
       (obs.ret = "True" /\ OnlyPcPlusFour /\ memory = obs.mem0 /\ ctl = "run")
  /\ Stepped => memory = obs.mem0

\* LW x5, 4(x1) was executed with x1 = 0xFFFFFFFF: the address 3 was
\* reported, x5 is still 0 and PC has advanced
C20_Witness ==
  /\ Fetched /\ OpcodeOf(obs.ins) = 3 /\ RdOf(obs.ins) = 5 /\ Rs1Of(obs.ins) = 1
  /\ obs.regs0[1] = <<65535, 65535>>
  /\ obs.out = << <<"LOAD", <<65536, 3>> >> >>
  /\ regfile[5] = <<0, 0>>
  /\ regfile[PC] = <<32768, 12>>

=============================================================================
